---- MODULE Spec2Model ----
(***************************************************************************)
(* Model of the Slack /metrics bot (src/bot.py): the modal view builder,   *)
(* the date validation, the typeahead cache with its background refresher, *)
(* and the Bolt handlers that drive one modal dialog.                       *)
(*                                                                         *)
(* Python strings that the code inspects character by character (cached    *)
(* names, query text) are sequences of one-character strings; the empty    *)
(* Python string is <<>>.  An ISO date string "YYYY-MM-DD" is the sequence *)
(* <<YYYY, MM, DD>> of its three numeric fields.  Option values that the   *)
(* code only compares for equality ("cpu_hours", "user", ...) are strings. *)
(***************************************************************************)
EXTENDS Integers, Sequences, FiniteSets, TLC

VARIABLES
    today,            \* what datetime.date.today() returns now
    SIX_MONTHS_AGO,   \* module constant computed once at import (bot.py:102)
    vd,               \* one call of validate_dates: its arguments and result
    CACHE_TYPEAHEAD,  \* the typeahead cache: "USERS" and "PI" lists
    refresher,        \* the update_typeahead_cache task: position and locals
    suggest,          \* one autocomplete (options) request and its answer
    rv,               \* calls of build_modal_view: arguments and results
    modal,            \* Slack's side of the dialog: status, hash, view, values
    handlers,         \* the Bolt handler invocations in flight, oldest first
    out,              \* what the handlers have sent: acks, API calls, posts
    prom,             \* the Prometheus counters and the in-progress gauge
    user              \* how many things the user has done so far

vars == <<today, SIX_MONTHS_AGO, vd, CACHE_TYPEAHEAD, refresher, suggest, rv,
          modal, handlers, out, prom, user>>

dialogVars == <<modal, handlers, out, prom, user>>

dateVars == <<today, SIX_MONTHS_AGO, vd>>
cacheVars == <<CACHE_TYPEAHEAD, refresher, suggest>>

\* ------------------------------------------------------------------ bounds
BaseYear == 2024
YearSpan == 1
MaxCycles == 2
MaxDays == 1
MaxUserActions == 4
MaxInFlight == 2

\* ------------------------------------------------------------ Python dicts
EmptyDict == [k \in {} |-> 0]

DictSet(d, k, v) == [x \in (DOMAIN d) \cup {k} |-> IF x = k THEN v ELSE d[x]]

\* ------------------------------------------------------------------- dates
Years == BaseYear .. (BaseYear + YearSpan)

IsLeap(y) == (y % 4 = 0 /\ y % 100 # 0) \/ y % 400 = 0

\* calendar.monthrange(year, month)[1]
DaysInMonth(y, m) ==
    IF m = 2 THEN (IF IsLeap(y) THEN 29 ELSE 28)
    ELSE IF m \in {4, 6, 9, 11} THEN 30 ELSE 31

Min(a, b) == IF a < b THEN a ELSE b

\* datetime.date values the model draws from: the 1st, the 15th and the
\* last day of every month of the modelled years.
Dates ==
    { dt \in [year : Years, month : 1..12, day : 1..31] :
        dt.day \in {1, 15, DaysInMonth(dt.year, dt.month)} }

\* datetime.date.fromisoformat / date.isoformat
fromisoformat(s) == [year |-> s[1], month |-> s[2], day |-> s[3]]

isoformat(dt) == <<dt.year, dt.month, dt.day>>

\* date.__lt__ : dates order by (year, month, day)
DateLT(a, b) ==
    \/ a.year < b.year
    \/ a.year = b.year /\ a.month < b.month
    \/ a.year = b.year /\ a.month = b.month /\ a.day < b.day

DateGT(a, b) == DateLT(b, a)

\* dt - relativedelta(months=n): the month moves back n months, the year
\* follows, and the day is clamped to the length of the resulting month.
MinusMonths(dt, n) ==
    LET m0 == dt.month - n
        y  == IF m0 < 1 THEN dt.year - 1 ELSE dt.year
        m  == IF m0 < 1 THEN m0 + 12 ELSE m0
    IN  [year |-> y, month |-> m, day |-> Min(DaysInMonth(y, m), dt.day)]

LOOKBACK_MONTHS == 6

\* ------------------------------------------------------- validate_dates
MsgStartAfterEnd == [text |-> "Start must be on or before End.", arg |-> <<>>]

MsgBeforeLookback == [text |-> "Start cannot be earlier than", arg |-> SIX_MONTHS_AGO]

MsgEndInFuture == [text |-> "End cannot be in the future.", arg |-> <<>>]

\* mutant: the end check written with >= (today itself rejected)
validate_dates_end_inclusive(start, end) ==
    LET sd == fromisoformat(start)
        ed == fromisoformat(end)
        e1 == IF DateGT(sd, ed)
              THEN DictSet(EmptyDict, "start_date_block", MsgStartAfterEnd)
              ELSE EmptyDict
        e2 == IF DateLT(sd, MinusMonths(today, LOOKBACK_MONTHS))
              THEN DictSet(e1, "start_date_block", MsgBeforeLookback) ELSE e1
    IN  IF ~DateLT(ed, today)
        THEN DictSet(e2, "end_date_block", MsgEndInFuture) ELSE e2

\* mutant: the two start checks in the opposite order
validate_dates_swapped(start, end) ==
    LET sd == fromisoformat(start)
        ed == fromisoformat(end)
        e1 == IF DateLT(sd, MinusMonths(today, LOOKBACK_MONTHS))
              THEN DictSet(EmptyDict, "start_date_block", MsgBeforeLookback)
              ELSE EmptyDict
        e2 == IF DateGT(sd, ed)
              THEN DictSet(e1, "start_date_block", MsgStartAfterEnd) ELSE e1
    IN  IF DateGT(ed, today)
        THEN DictSet(e2, "end_date_block", MsgEndInFuture) ELSE e2

validate_dates(start, end) ==
    LET sd == fromisoformat(start)
        ed == fromisoformat(end)
        e0 == EmptyDict
        e1 == IF DateGT(sd, ed)
              THEN DictSet(e0, "start_date_block", MsgStartAfterEnd) ELSE e0
        e2 == IF DateLT(sd, MinusMonths(today, LOOKBACK_MONTHS))
              THEN DictSet(e1, "start_date_block", MsgBeforeLookback) ELSE e1
        e3 == IF DateGT(ed, today)
              THEN DictSet(e2, "end_date_block", MsgEndInFuture) ELSE e2
    IN  e3

\* ------------------------------------------- specification: validate_dates
TodayDates == { dt \in Dates : dt.year = BaseYear + YearSpan }

IdleCache ==
    /\ CACHE_TYPEAHEAD = [k \in {"USERS", "PI"} |-> <<>>]
    /\ refresher = [pc |-> "off", u1 |-> <<>>, g1 |-> <<>>, cycles |-> 0, failed |-> FALSE]
    /\ suggest = [pc |-> "idle"]

IdleView == rv = [pc |-> "off"]

IdleDialog ==
    /\ modal = [status |-> "none"]
    /\ handlers = <<>>
    /\ out = [ack |-> [kind |-> "none"], update |-> [n |-> 0], posts |-> <<>>, handoffs |-> 0]
    /\ prom = [in_progress |-> 0, commands |-> 0, views |-> 0,
               actions |-> [a \in {"metric_select", "filter_type"} |-> 0],
               errors |-> [h \in {"cmd_metrics", "on_metric_change",
                                  "on_filter_type_change", "on_submit"} |-> 0]]
    /\ user = 0

InitDates ==
    /\ IdleCache
    /\ IdleView
    /\ IdleDialog
    /\ today \in TodayDates
    /\ SIX_MONTHS_AGO = isoformat(MinusMonths(today, LOOKBACK_MONTHS))
    /\ vd \in [pc : {"call"}, start : { isoformat(dt) : dt \in Dates },
               end : { isoformat(dt) : dt \in Dates }, errs : {EmptyDict}]

Validate ==
    /\ vd.pc = "call"
    /\ vd' = [vd EXCEPT !.pc = "done", !.errs = validate_dates(vd.start, vd.end)]
    /\ UNCHANGED <<today, SIX_MONTHS_AGO, cacheVars, rv, dialogVars>>

NextDates == Validate

SpecDates == InitDates /\ [][NextDates]_vars

\* --------------------------------------------------- claims: validate_dates
\* A date as one number, ordered as the calendar orders dates.
DateKey(s) == s[1] * 10000 + s[2] * 100 + s[3]

\* The 6-month cutoff computed on a month count: the same day of the month
\* six months back, or that month's last day when it is shorter.
CutoffKey ==
    LET n == today.year * 12 + (today.month - 1) - 6
        y == n \div 12
        m == (n % 12) + 1
    IN  y * 10000 + m * 100 + Min(today.day, DaysInMonth(y, m))

TodayKey == DateKey(isoformat(today))

\* C2: validate_dates has a start-date entry iff start > end or start is
\* before today minus 6 months, an end-date entry iff end > today, and is
\* empty exactly when start <= end, start >= cutoff and end <= today.
C2_ValidateDatesIff ==
    vd.pc = "done" =>
        LET s == DateKey(vd.start)
            e == DateKey(vd.end)
        IN  /\ ("start_date_block" \in DOMAIN vd.errs) <=> (s > e \/ s < CutoffKey)
            /\ ("end_date_block" \in DOMAIN vd.errs) <=> (e > TodayKey)
            /\ (vd.errs = EmptyDict) <=> (s <= e /\ s >= CutoffKey /\ e <= TodayKey)

\* a validated pair with start on the (clamped) cutoff and end on today
C2_Witness ==
    /\ vd.pc = "done"
    /\ DateKey(vd.start) = CutoffKey
    /\ vd.end = isoformat(today)
    /\ vd.start[3] < today.day
    /\ vd.errs = EmptyDict

\* C3: at most one message per field, and when start > end and start is
\* before the cutoff, the start-date message is the lookback message.
C3_LookbackMessageWins ==
    vd.pc = "done" =>
        /\ DOMAIN vd.errs \subseteq {"start_date_block", "end_date_block"}
        /\ (DateKey(vd.start) > DateKey(vd.end) /\ DateKey(vd.start) < CutoffKey)
              => vd.errs["start_date_block"] = MsgBeforeLookback

C3_Witness ==
    /\ vd.pc = "done"
    /\ DateKey(vd.start) > DateKey(vd.end)
    /\ DateKey(vd.start) < CutoffKey
    /\ "start_date_block" \in DOMAIN vd.errs

\* ---------------------------------------------------------- Python strings
\* The characters of the modelled names, in code-point order.
Alphabet == <<"D", "d", "e", "o">>

Ord(c) == CHOOSE i \in 1..Len(Alphabet) : Alphabet[i] = c

\* str.lower(), character by character
LowerChar(c) == IF c = "D" THEN "d" ELSE c

lower(str) == [i \in 1..Len(str) |-> LowerChar(str[i])]

\* Python's `a in b` for strings: a occurs in b as a contiguous run
StrIn(a, b) ==
    \E i \in 0..(Len(b) - Len(a)) : SubSeq(b, i + 1, i + Len(a)) = a

\* str.__lt__ : lexicographic by code point, a proper prefix first
StrLT(a, b) ==
    \E i \in 1..(Len(b)) :
        /\ i <= Len(a) + 1
        /\ \A j \in 1..(i - 1) : a[j] = b[j]
        /\ (i = Len(a) + 1 \/ Ord(a[i]) < Ord(b[i]))

RECURSIVE StringsOfLen(_)
StringsOfLen(n) ==
    IF n = 0 THEN { <<>> }
    ELSE { Append(w, Alphabet[i]) : w \in StringsOfLen(n - 1), i \in 1..Len(Alphabet) }

\* The names the data warehouse can list, and the texts a user can type.
NameLengths == 1..2

QueryLengths == 0..2

Names == UNION { StringsOfLen(n) : n \in NameLengths }

Queries == UNION { StringsOfLen(n) : n \in QueryLengths }

\* sorted(index.unique().tolist()): the listing's distinct values, ascending
RECURSIVE sorted(_)
sorted(S) ==
    IF S = {} THEN <<>>
    ELSE LET least == CHOOSE x \in S : \A y \in S \ {x} : StrLT(x, y)
         IN  <<least>> \o sorted(S \ {least})

\* itertools.chain(a, b)
chain(a, b) == a \o b

\* list(dict.fromkeys(seq)): the first occurrence of every key, in order
RECURSIVE dict_fromkeys(_)
dict_fromkeys(seq) ==
    IF seq = <<>> THEN <<>>
    ELSE LET head == dict_fromkeys(SubSeq(seq, 1, Len(seq) - 1))
             x    == seq[Len(seq)]
         IN  IF \E i \in 1..Len(head) : head[i] = x THEN head ELSE Append(head, x)

\* ------------------------------------------------------ make_suggest_options
SUGGEST_LIMIT == 10

PlainOption(m) == [text |-> <<"plain", m>>, value |-> m]

LiteralOption(q) == [text |-> <<"Use", q>>, value |-> q]

\* mutant: the match made case-sensitive (q in c)
make_suggest_options_cased(cache_key, q) ==
    LET hits    == SelectSeq(CACHE_TYPEAHEAD[cache_key], LAMBDA c : StrIn(q, c))
        matches == SubSeq(hits, 1, Min(SUGGEST_LIMIT, Len(hits)))
        options == [i \in 1..Len(matches) |-> PlainOption(matches[i])]
    IN  IF q # <<>> THEN Append(options, LiteralOption(q)) ELSE options

make_suggest_options(cache_key, q) ==
    LET hits    == SelectSeq(CACHE_TYPEAHEAD[cache_key],
                             LAMBDA c : StrIn(lower(q), lower(c)))
        matches == SubSeq(hits, 1, Min(SUGGEST_LIMIT, Len(hits)))
        options == [i \in 1..Len(matches) |-> PlainOption(matches[i])]
    IN  IF q # <<>> THEN Append(options, LiteralOption(q)) ELSE options

\* ------------------------------------------------------ update_typeahead_cache
\* What dw.get_data(dimension=...) can list for the last 7 days: nobody, the
\* one-character names, the names with a given first character, everybody.
Listings ==
    { {}, { n \in Names : Len(n) = 1 }, Names } \cup
    { { n \in Names : n[1] = Alphabet[i] } : i \in 1..Len(Alphabet) }

GroupListings == { { n \in Names : Len(n) = 1 }, { n \in Names : n[1] = "o" } }

\* mutant: the fresh listing chained before the cached one
merge_listing_fresh_first(cache_key, fresh) ==
    dict_fromkeys(chain(fresh, CACHE_TYPEAHEAD[cache_key]))

\* mutant: the list is installed when only the first entry of the batch has
\* been merged
merge_listing_partial(cache_key, fresh) ==
    dict_fromkeys(chain(CACHE_TYPEAHEAD[cache_key], SubSeq(fresh, 1, Min(1, Len(fresh)))))

merge_listing(cache_key, fresh) ==
    dict_fromkeys(chain(CACHE_TYPEAHEAD[cache_key], fresh))

\* The cycle is inside a synchronous stretch of the coroutine: from the
\* first get_data to the cache assignments the task does not await.
LoopHeldByRefresher == refresher.pc \in {"fetch_users", "fetch_groups"}

\* main: asyncio.create_task(update_typeahead_cache()); the first cycle
\* starts at once, each later one after asyncio.sleep(100).
RefreshBegin ==
    /\ refresher.pc \in {"off", "sleeping"}
    /\ refresher.cycles < MaxCycles
    /\ refresher' = [refresher EXCEPT !.pc = "fetch_users", !.cycles = @ + 1]
    /\ UNCHANGED <<CACHE_TYPEAHEAD, suggest>>
    /\ UNCHANGED <<dateVars, rv, dialogVars>>

\* mutant: the users list is written as soon as it is fetched
CacheWhileFetching_users_written(u1) ==
    [CACHE_TYPEAHEAD EXCEPT !["USERS"] = dict_fromkeys(chain(@, u1))]

\* lines 519-522: between the two get_data calls only the locals u0, u1 are
\* assigned; the cache is as it was
CacheWhileFetching(u1) == CACHE_TYPEAHEAD

FetchUsersReturn ==
    /\ refresher.pc = "fetch_users"
    /\ \E u0 \in Listings :
         /\ refresher' = [refresher EXCEPT !.pc = "fetch_groups", !.u1 = sorted(u0)]
         /\ CACHE_TYPEAHEAD' = CacheWhileFetching(sorted(u0))
    /\ UNCHANGED suggest
    /\ UNCHANGED <<dateVars, rv, dialogVars>>

FetchGroupsReturn ==
    /\ refresher.pc = "fetch_groups"
    /\ \E g0 \in GroupListings :
         LET g1 == sorted(g0)
         IN  /\ CACHE_TYPEAHEAD' =
                  [k \in {"USERS", "PI"} |->
                      IF k = "USERS" THEN merge_listing("USERS", refresher.u1)
                      ELSE merge_listing("PI", g1)]
             /\ refresher' = [refresher EXCEPT !.pc = "sleeping", !.g1 = g1]
    /\ UNCHANGED suggest
    /\ UNCHANGED <<dateVars, rv, dialogVars>>

\* dw.get_data raises: nothing in update_typeahead_cache catches it, the
\* coroutine ends with the exception and the task is finished.
FetchFails ==
    /\ refresher.pc \in {"fetch_users", "fetch_groups"}
    /\ refresher' = [refresher EXCEPT !.pc = "dead", !.failed = TRUE]
    /\ UNCHANGED <<CACHE_TYPEAHEAD, suggest>>
    /\ UNCHANGED <<dateVars, rv, dialogVars>>

\* ------------------------------------- suggest_filter_values_user / _pi
CacheKeyOf(action_id) == IF action_id = "filter_value_user" THEN "USERS" ELSE "PI"

\* Slack sends an options request for what the user has typed so far.
OptionsRequest ==
    /\ suggest.pc = "idle"
    /\ \E a \in {"filter_value_user", "filter_value_pi"}, q \in Queries :
         suggest' = [pc |-> "pending", action_id |-> a, value |-> q]
    /\ UNCHANGED <<CACHE_TYPEAHEAD, refresher>>
    /\ UNCHANGED <<dateVars, rv, dialogVars>>

\* The handler runs when the event loop gets to it; it reads the cache and
\* acks the options.
SuggestFilterValues ==
    /\ suggest.pc = "pending"
    /\ ~LoopHeldByRefresher
    /\ suggest' = [pc |-> "answered",
                   action_id |-> suggest.action_id,
                   value |-> suggest.value,
                   seen |-> CACHE_TYPEAHEAD[CacheKeyOf(suggest.action_id)],
                   options |-> make_suggest_options(CacheKeyOf(suggest.action_id),
                                                    suggest.value)]
    /\ UNCHANGED <<CACHE_TYPEAHEAD, refresher>>
    /\ UNCHANGED <<dateVars, rv, dialogVars>>

\* The answer has been delivered; the request is over.
OptionsDone ==
    /\ suggest.pc = "answered"
    /\ suggest' = [pc |-> "idle"]
    /\ UNCHANGED <<CACHE_TYPEAHEAD, refresher>>
    /\ UNCHANGED <<dateVars, rv, dialogVars>>

InitCache ==
    /\ IdleCache
    /\ IdleView
    /\ IdleDialog
    /\ today = [year |-> BaseYear + YearSpan, month |-> 1, day |-> 1]
    /\ SIX_MONTHS_AGO = isoformat(MinusMonths(today, LOOKBACK_MONTHS))
    /\ vd = [pc |-> "off"]

NextCache ==
    \/ RefreshBegin
    \/ FetchUsersReturn
    \/ FetchGroupsReturn
    \/ FetchFails
    \/ OptionsRequest
    \/ SuggestFilterValues
    \/ OptionsDone

SpecCache == InitCache /\ [][NextCache]_vars

\* ------------------------------------------------ claims: typeahead cache
\* two characters that are the same letter, whatever their case
SameLetter(a, b) == a = b \/ {a, b} = {"D", "d"}

\* q occurs in c at some offset, letter by letter, ignoring case
Contains(c, q) ==
    \E k \in 0..Len(c) :
        /\ k + Len(q) <= Len(c)
        /\ \A j \in 1..Len(q) : SameLetter(c[k + j], q[j])

\* the number of entries before position i that contain q
Rank(list, q, i) == Cardinality({ j \in 1..(i - 1) : Contains(list[j], q) })

Kept(list, q) ==
    { i \in 1..Len(list) : Contains(list[i], q) /\ Rank(list, q, i) < 10 }

\* C4: the answer is the first at most 10 cached entries containing q
\* (case-insensitive, anywhere), in cache order, followed by one literal
\* entry with value q iff q is non-empty.
C4_SuggestResult ==
    suggest.pc = "answered" =>
        LET list == suggest.seen
            q    == suggest.value
            opts == suggest.options
            n    == Cardinality(Kept(list, q))
        IN  /\ n <= 10
            /\ Len(opts) = n + (IF q = <<>> THEN 0 ELSE 1)
            /\ \A i \in Kept(list, q) :
                 opts[Rank(list, q, i) + 1] = [text |-> <<"plain", list[i]>>, value |-> list[i]]
            /\ q # <<>> => opts[Len(opts)] = [text |-> <<"Use", q>>, value |-> q]

\* an answer cut at 10 matches plus the literal, with a match that is
\* neither a prefix match nor a same-case match
C4_Witness ==
    /\ suggest.pc = "answered"
    /\ suggest.value # <<>>
    /\ Len(suggest.options) = 11
    /\ Cardinality({ i \in 1..Len(suggest.seen) : Contains(suggest.seen[i], suggest.value) }) > 10
    /\ \E i \in 1..10 :
         LET m == suggest.options[i].value
         IN  /\ Len(m) > Len(suggest.value)
             /\ SubSeq(m, 1, Len(suggest.value)) # suggest.value
             /\ ~StrIn(suggest.value, m)

NoDuplicates(list) ==
    \A i, j \in 1..Len(list) : list[i] = list[j] => i = j

IsPrefix(a, b) == Len(a) <= Len(b) /\ \A i \in 1..Len(a) : a[i] = b[i]

IndexIn(list, x) == CHOOSE i \in 1..Len(list) : list[i] = x

\* The part of new after old holds exactly the batch entries not in old,
\* ordered as in the batch.
AppendedInBatchOrder(old, new, batch) ==
    LET added == SubSeq(new, Len(old) + 1, Len(new))
    IN  /\ { added[i] : i \in 1..Len(added) } =
             { batch[i] : i \in 1..Len(batch) } \ { old[i] : i \in 1..Len(old) }
        /\ \A i, j \in 1..Len(added) :
             i < j => IndexIn(batch, added[i]) < IndexIn(batch, added[j])

\* C5: no cached list ever holds a duplicate, the list before a refresh is
\* a prefix of the list after it, and a batch's new entries are appended in
\* the order of the batch.
C5_MergeAdditive ==
    [][ /\ NoDuplicates(CACHE_TYPEAHEAD'["USERS"])
        /\ NoDuplicates(CACHE_TYPEAHEAD'["PI"])
        /\ IsPrefix(CACHE_TYPEAHEAD["USERS"], CACHE_TYPEAHEAD'["USERS"])
        /\ IsPrefix(CACHE_TYPEAHEAD["PI"], CACHE_TYPEAHEAD'["PI"])
        /\ CACHE_TYPEAHEAD' # CACHE_TYPEAHEAD =>
             /\ AppendedInBatchOrder(CACHE_TYPEAHEAD["USERS"],
                                     CACHE_TYPEAHEAD'["USERS"], refresher'.u1)
             /\ AppendedInBatchOrder(CACHE_TYPEAHEAD["PI"],
                                     CACHE_TYPEAHEAD'["PI"], refresher'.g1)
      ]_vars

\* after a second, overlapping refresh: the last batch has entries already
\* cached and entries appended behind names that sort after them
C5_Witness ==
    LET list == CACHE_TYPEAHEAD["USERS"]
    IN  /\ refresher.pc = "sleeping"
        /\ refresher.cycles = 2
        /\ Len(list) > Len(refresher.u1)
        /\ \E i, j \in 1..Len(list) : i < j /\ StrLT(list[j], list[i])
        /\ \E i \in 1..Len(refresher.u1) : refresher.u1[i] = list[1]
        /\ \E i \in 1..Len(refresher.u1) : refresher.u1[i] = list[Len(list)]

\* C6: a failed refresh cycle does not end the refresher: after the
\* external listing call fails, the task goes on to its next wait.
C6_FailedCycleProceeds ==
    [][ (LoopHeldByRefresher /\ refresher'.failed) => refresher'.pc = "sleeping" ]_vars

\* ----------------------------------------------------------- Python values
\* A Python value is a record with a tag: None, a str (k says what its text
\* is: "opt" an option value held as a string, "text" a sequence of
\* characters, "iso" an ISO date), a dict (v maps keys to values), an int,
\* or a raised exception standing for the expression that raised it.
None == [tag |-> "None"]

Str(k, v) == [tag |-> "str", k |-> k, v |-> v]

Dict(f) == [tag |-> "dict", v |-> f]

Raise(e) == [tag |-> "raise", v |-> e]

EmptyStr == Str("text", <<>>)

\* bool(x)
Truthy(x) ==
    CASE x.tag = "None" -> FALSE
      [] x.tag = "str"  -> ~(x.k = "text" /\ x.v = <<>>)
      [] x.tag = "dict" -> DOMAIN x.v # {}
      [] OTHER -> TRUE

\* d.get(key, default); on anything but a dict it raises AttributeError
Get(d, key, default) ==
    IF d.tag = "raise" THEN d
    ELSE IF d.tag # "dict" THEN Raise("AttributeError")
    ELSE IF key \in DOMAIN d.v THEN d.v[key] ELSE default

\* ------------------------------------------------------- module constants
Option(text, value) == Dict([text |-> Str("opt", text), value |-> Str("opt", value)])

METRIC_OPTIONS ==
    << Option("CPU hours", "cpu_hours"),
       Option("GPU hours", "gpu_hours"),
       Option("Queue wait-time", "queue_wait") >>

FORMATS == << Option("Aggregate", "aggregate"), Option("Timeseries", "timeseries") >>

FILTER_TYPES == << Option("N/A", "na"), Option("User", "user"), Option("Group", "group") >>

\* mutant: the first option, whatever the value
NextOption_first(options, value) == options[1]

\* next(o for o in options if o["value"] == value): StopIteration if none
NextOption(options, value) ==
    IF value.tag = "raise" THEN value
    ELSE LET hits == { i \in 1..Len(options) : options[i].v["value"] = value }
         IN  IF hits = {} THEN Raise("StopIteration")
             ELSE options[CHOOSE i \in hits : \A j \in hits : i <= j]

\* ---------------------------------------------------------- build_modal_view
\* sv(bid, aid) of build_modal_view
sv(state_values, bid, aid) ==
    IF ~Truthy(state_values) THEN EmptyStr
    ELSE LET v == Get(Get(Get(state_values, bid, Dict(EmptyDict)),
                          aid, Dict(EmptyDict)), "value", None)
         IN  IF v.tag \in {"raise", "str"} THEN v ELSE EmptyStr

SelectedValue(state_values, bid, aid, default) ==
    IF Truthy(state_values)
    THEN Get(Get(Get(Get(state_values, bid, Dict(EmptyDict)),
                     aid, Dict(EmptyDict)), "selected_option", Dict(EmptyDict)),
             "value", Str("opt", default))
    ELSE Str("opt", default)

\* x or date.today().isoformat()
OrToday(x) == IF x.tag = "raise" \/ Truthy(x) THEN x ELSE Str("iso", isoformat(today))

IsOpt(x, values) == x.tag = "str" /\ x.k = "opt" /\ x.v \in values

\* the first exception raised among the expressions, in evaluation order
FirstRaise(xs) ==
    LET bad == { i \in 1..Len(xs) : xs[i].tag = "raise" }
    IN  IF bad = {} THEN None ELSE xs[CHOOSE i \in bad : \A j \in bad : i <= j]

FILTERABLE == {"cpu_hours", "gpu_hours", "queue_wait"}

build_modal_view(channel_id, selected_metric, state_values) ==
    LET prev_filter == SelectedValue(state_values, "filter_block", "filter_type", "na")
        prev_format == SelectedValue(state_values, "format_block", "format_select", "aggregate")
        start_init  == OrToday(sv(state_values, "start_date_block", "start_date"))
        end_init    == OrToday(sv(state_values, "end_date_block", "end_date"))
        metric_init == IF Truthy(selected_metric)
                       THEN NextOption(METRIC_OPTIONS, selected_metric) ELSE None
        format_init == NextOption(FORMATS, prev_format)
        filterable  == IsOpt(selected_metric, FILTERABLE)
        filter_init == IF filterable THEN NextOption(FILTER_TYPES, prev_filter) ELSE None
        with_value  == filterable /\ IsOpt(prev_filter, {"user", "group"})
        init_val    == IF with_value
                       THEN sv(state_values, "filter_value_block", "filter_value")
                       ELSE None
        is_user     == prev_filter.v = "user"
        head ==
          << [type |-> "input", block_id |-> "start_date_block", label |-> "Start date",
              element |-> [type |-> "datepicker", action_id |-> "start_date",
                           initial_date |-> start_init,
                           placeholder |-> <<">=", SIX_MONTHS_AGO>>]],
             [type |-> "input", block_id |-> "end_date_block", label |-> "End date",
              element |-> [type |-> "datepicker", action_id |-> "end_date",
                           initial_date |-> end_init,
                           placeholder |-> <<"<= today">>]],
             [type |-> "input", block_id |-> "metric_block", dispatch_action |-> TRUE,
              label |-> "Metric",
              element |-> IF Truthy(selected_metric)
                          THEN [type |-> "static_select", action_id |-> "metric_select",
                                options |-> METRIC_OPTIONS, initial_option |-> metric_init]
                          ELSE [type |-> "static_select", action_id |-> "metric_select",
                                options |-> METRIC_OPTIONS]],
             [type |-> "input", block_id |-> "format_block", label |-> "Format",
              element |-> [type |-> "static_select", action_id |-> "format_select",
                           options |-> FORMATS, initial_option |-> format_init]],
             [type |-> "divider"] >>
        filter_block ==
             [type |-> "input", block_id |-> "filter_block", dispatch_action |-> TRUE,
              label |-> "Filter Type",
              element |-> [type |-> "static_select", action_id |-> "filter_type",
                           options |-> FILTER_TYPES, initial_option |-> filter_init]]
        elem0 ==
             [type |-> "external_select",
              action_id |-> IF is_user THEN "filter_value_user" ELSE "filter_value_pi",
              min_query_length |-> 0,
              placeholder |-> IF is_user THEN "e.g. jdoe" ELSE "e.g. analytics"]
        elem == IF Truthy(init_val)
                THEN [type |-> elem0.type, action_id |-> elem0.action_id,
                      min_query_length |-> elem0.min_query_length,
                      placeholder |-> elem0.placeholder, initial_value |-> init_val]
                ELSE elem0
        value_block ==
             [type |-> "input", block_id |-> "filter_value_block",
              label |-> IF is_user THEN "FASRC Username" ELSE "FASRC Group",
              element |-> elem]
        no_filter_block ==
             [type |-> "section", block_id |-> "no_filter_block",
              text |-> "No filter block available for selection. You should never see this."]
        blocks ==
            IF filterable
            THEN (IF with_value THEN head \o <<filter_block, value_block>>
                  ELSE Append(head, filter_block))
            ELSE Append(head, no_filter_block)
        exc == FirstRaise(<<prev_filter, prev_format, start_init, end_init,
                            metric_init, format_init, filter_init, init_val>>)
    IN  IF exc.tag = "raise" THEN exc
        ELSE [tag |-> "view", type |-> "modal", callback_id |-> "metrics_modal",
              private_metadata |-> channel_id, title |-> "Metrics",
              submit |-> "Generate", close |-> "Cancel", blocks |-> blocks]

\* ------------------------------------------------ view.state.values (Slack)
\* What Slack echoes for each kind of element, as on_submit reads it: a
\* datepicker under "selected_date", a select under "selected_option".
DateState(iso) ==
    Dict([type |-> Str("opt", "datepicker"), selected_date |-> Str("iso", iso)])

SelectState(type, option) ==
    Dict([type |-> Str("opt", type), selected_option |-> option])

\* the option an external select holds once the user picked a suggestion
PickedOption(name) == Dict([text |-> Str("text", name), value |-> Str("text", name)])

OptionOf(options, value) ==
    options[CHOOSE i \in 1..Len(options) : options[i].v["value"] = Str("opt", value)]

Block(action_id, state) == Dict([a \in {action_id} |-> state])

\* The echoed state of a modal showing the given selections. filter is
\* "absent" (no filter block in the view) or the selected filter type;
\* fvalue is the filter-value element's selected option (None: nothing
\* picked), held only when the filter type is user or group.
FormState(start, end, metric, format, filter, vaid, fvalue) ==
    LET base ==
          [ start_date_block |-> Block("start_date", DateState(start)),
            end_date_block   |-> Block("end_date", DateState(end)),
            metric_block     |-> Block("metric_select",
                                   SelectState("static_select", OptionOf(METRIC_OPTIONS, metric))),
            format_block     |-> Block("format_select",
                                   SelectState("static_select", OptionOf(FORMATS, format))) ]
        fb == Block("filter_type", SelectState("static_select", OptionOf(FILTER_TYPES, filter)))
        vb == Block(vaid, SelectState("external_select", fvalue))
        wf == IF filter = "absent" THEN base ELSE DictSet(base, "filter_block", fb)
    IN  Dict(IF vaid = "none" THEN wf ELSE DictSet(wf, "filter_value_block", vb))

\* the shapes of the filter part: the filter-type select may be missing,
\* and the filter-value select is the one of the last rendered view, which
\* may be missing or belong to the filter type selected before
FilterShapes ==
    { <<"absent", "none", None>> } \cup
    { <<ft, "none", None>> : ft \in {"na", "user", "group"} } \cup
    { <<ft, aid, fv>> : ft \in {"na", "user", "group"},
                        aid \in {"filter_value_user", "filter_value_pi"},
                        fv \in {None, PickedOption(<<"d", "o">>)} }

MetricValues == {"cpu_hours", "gpu_hours", "queue_wait"}

\* ------------------------------------------------ what a view shows
HasBlock(view, bid) ==
    \E i \in 1..Len(view.blocks) :
        "block_id" \in DOMAIN view.blocks[i] /\ view.blocks[i].block_id = bid

BlockOf(view, bid) ==
    view.blocks[CHOOSE i \in 1..Len(view.blocks) :
                  "block_id" \in DOMAIN view.blocks[i] /\ view.blocks[i].block_id = bid]

InputBlockIds(view) ==
    { view.blocks[i].block_id :
        i \in { j \in 1..Len(view.blocks) : "element" \in DOMAIN view.blocks[j] } }

\* the state a freshly shown element starts with
ElementState(e) ==
    IF e.type = "datepicker"
    THEN Dict([type |-> Str("opt", "datepicker"), selected_date |-> e.initial_date])
    ELSE SelectState(e.type, IF "initial_option" \in DOMAIN e THEN e.initial_option ELSE None)

\* view.state.values once Slack shows view: an element that was already
\* shown (same block_id and action_id) keeps what the user entered, any
\* other starts from its initial value; removed elements are dropped.
RetainedValues(old, view) ==
    Dict([bid \in InputBlockIds(view) |->
            LET e == BlockOf(view, bid).element
            IN  IF old.tag = "dict" /\ bid \in DOMAIN old.v /\ e.action_id \in DOMAIN old.v[bid].v
                THEN old.v[bid]
                ELSE Block(e.action_id, ElementState(e))])

\* ---------------------------------- specification: build_modal_view alone
NextDay(dt) ==
    IF dt.day < DaysInMonth(dt.year, dt.month)
    THEN [dt EXCEPT !.day = @ + 1]
    ELSE IF dt.month < 12 THEN [dt EXCEPT !.month = @ + 1, !.day = 1]
    ELSE [year |-> dt.year + 1, month |-> 1, day |-> 1]

ViewToday == [year |-> BaseYear + YearSpan, month |-> 6, day |-> 30]

ViewDates == { isoformat(ViewToday), isoformat(MinusMonths(ViewToday, 1)) }

RawStates ==
    { None, Dict(EmptyDict) } \cup
    { FormState(s, e, m, f, fs[1], fs[2], fs[3]) :
        s \in ViewDates, e \in ViewDates, m \in MetricValues,
        f \in {"aggregate", "timeseries"}, fs \in FilterShapes }

InitView ==
    /\ IdleCache
    /\ IdleDialog
    /\ vd = [pc |-> "off"]
    /\ today = ViewToday
    /\ SIX_MONTHS_AGO = isoformat(MinusMonths(today, LOOKBACK_MONTHS))
    /\ rv \in [pc : {"init"}, days : {0}, channel_id : {"C1", "D1"},
               selected_metric : { Str("opt", m) : m \in MetricValues },
               state_values : RawStates]

\* the first call of build_modal_view on the arguments
FirstCall ==
    /\ rv.pc = "init"
    /\ rv' = [pc |-> "called1", days |-> rv.days, channel_id |-> rv.channel_id,
              selected_metric |-> rv.selected_metric, state_values |-> rv.state_values,
              view1 |-> build_modal_view(rv.channel_id, rv.selected_metric, rv.state_values)]
    /\ UNCHANGED <<dateVars, cacheVars, dialogVars>>

\* midnight passes between two calls in the same process
DayPasses ==
    /\ rv.pc = "called1"
    /\ rv.days < MaxDays
    /\ today' = NextDay(today)
    /\ rv' = [rv EXCEPT !.days = @ + 1]
    /\ UNCHANGED <<SIX_MONTHS_AGO, vd, cacheVars, dialogVars>>

\* a later call on the same arguments
SecondCall ==
    /\ rv.pc = "called1"
    /\ rv' = [pc |-> "called2", days |-> rv.days, channel_id |-> rv.channel_id,
              selected_metric |-> rv.selected_metric, state_values |-> rv.state_values,
              view1 |-> rv.view1,
              view2 |-> build_modal_view(rv.channel_id, rv.selected_metric, rv.state_values)]
    /\ UNCHANGED <<dateVars, cacheVars, dialogVars>>

\* the state Slack echoes for a view nobody has touched: every field holds
\* what the view displays
EchoOf(view) == RetainedValues(None, view)

\* the view is shown, and an event of the untouched view comes back:
\* build_modal_view is called on the echo of its own result
Reconcile ==
    /\ rv.pc = "called1"
    /\ rv.view1.tag = "view"
    /\ rv' = [pc |-> "echoed", days |-> rv.days, channel_id |-> rv.channel_id,
              selected_metric |-> rv.selected_metric, state_values |-> rv.state_values,
              view1 |-> rv.view1,
              view2 |-> build_modal_view(rv.channel_id, rv.selected_metric, EchoOf(rv.view1))]
    /\ UNCHANGED <<dateVars, cacheVars, dialogVars>>

\* ---------------------- specification: build_modal_view on damaged state
PyInt(n) == [tag |-> "int", v |-> n]

\* the fields build_modal_view looks for in the raw state, with the key
\* their value is held under
StateFields ==
    { <<"start_date_block", "start_date", "selected_date">>,
      <<"end_date_block", "end_date", "selected_date">>,
      <<"format_block", "format_select", "selected_option">>,
      <<"filter_block", "filter_type", "selected_option">>,
      <<"filter_value_block", "filter_value_user", "selected_option">> }

Damages == {"missing", "null_entry", "null_value", "not_a_string"}

\* a well-formed state in which one field's entry is missing, is null, holds
\* a null value, or holds a value that is not a string
Damaged(state, fld, how) ==
    LET bid   == fld[1]
        aid   == fld[2]
        key   == fld[3]
        entry == state.v[bid].v[aid]
        held  == IF how = "null_value" THEN None
                 ELSE IF key = "selected_date" THEN PyInt(5)
                 ELSE Dict([text |-> Str("opt", "five"), value |-> PyInt(5)])
    IN  CASE how = "missing" ->
               Dict([b \in DOMAIN state.v \ {bid} |-> state.v[b]])
          [] how = "null_entry" ->
               Dict(DictSet(state.v, bid, Dict(DictSet(state.v[bid].v, aid, None))))
          [] OTHER ->
               Dict(DictSet(state.v, bid,
                            Dict(DictSet(state.v[bid].v, aid,
                                         Dict(DictSet(entry.v, key, held))))))

DamagedStates ==
    { Damaged(FormState(isoformat(ViewToday), isoformat(ViewToday), m, "timeseries",
                        "user", "filter_value_user", PickedOption(<<"d", "o">>)),
              fld, how) :
        m \in MetricValues, fld \in StateFields, how \in Damages }

InitDamaged ==
    /\ IdleCache
    /\ IdleDialog
    /\ vd = [pc |-> "off"]
    /\ today = ViewToday
    /\ SIX_MONTHS_AGO = isoformat(MinusMonths(today, LOOKBACK_MONTHS))
    /\ rv \in [pc : {"init"}, days : {0}, channel_id : {"C1", "D1"},
               selected_metric : { Str("opt", m) : m \in MetricValues },
               state_values : DamagedStates]

NextView == FirstCall \/ DayPasses \/ SecondCall \/ Reconcile

SpecView == InitView /\ [][NextView]_vars

SpecDamaged == InitDamaged /\ [][NextView]_vars

\* ------------------------------------------------ claims: build_modal_view
\* C10: two calls of build_modal_view with the same (surface id, selected
\* metric, raw field state) return identical views, whenever they are made.
C10_Deterministic == rv.pc = "called2" => rv.view1 = rv.view2

\* ------------------------------------------------------- the Slack surface
\* The modal as Slack holds it, seen through the calls the handlers make
\* (views_open, views_update with hash, ack) and the payloads they read.
SetState(values, bid, aid, state) == Dict(DictSet(values.v, bid, Block(aid, state)))

Channels == {"C1", "D1"}

\* the dates the user picks in the dialog: today, tomorrow, seven months back
DialogDates ==
    { isoformat(today), isoformat(NextDay(today)), isoformat(MinusMonths(today, 7)) }

FilterValues == { <<"d", "o">> }

\* the payload view of an event raised on the modal as it is now
PayloadView(values) ==
    [hash |-> modal.hash, private_metadata |-> modal.view.private_metadata, values |-> values]

CanAct == modal.status = "open" /\ user < MaxUserActions

\* /metrics typed in a channel
UserCommand ==
    /\ modal.status = "none"
    /\ handlers = <<>>
    /\ user < MaxUserActions
    /\ \E ch \in Channels :
         handlers' = Append(handlers, [kind |-> "cmd_metrics", pc |-> "new",
                                       body |-> [channel_id |-> ch]])
    /\ user' = user + 1
    /\ UNCHANGED <<modal, out, prom, dateVars, cacheVars, rv>>

UserPickDate ==
    /\ CanAct
    /\ \E f \in {"start_date", "end_date"}, d \in DialogDates :
         LET bid == IF f = "start_date" THEN "start_date_block" ELSE "end_date_block"
         IN  /\ modal.values.v[bid].v[f] # DateState(d)
             /\ modal' = [modal EXCEPT !.values = SetState(@, bid, f, DateState(d))]
    /\ user' = user + 1
    /\ UNCHANGED <<handlers, out, prom, dateVars, cacheVars, rv>>

UserSelectFormat ==
    /\ CanAct
    /\ \E f \in {"aggregate", "timeseries"} :
         LET st == SelectState("static_select", OptionOf(FORMATS, f))
         IN  /\ modal.values.v["format_block"].v["format_select"] # st
             /\ modal' = [modal EXCEPT !.values = SetState(@, "format_block", "format_select", st)]
    /\ user' = user + 1
    /\ UNCHANGED <<handlers, out, prom, dateVars, cacheVars, rv>>

\* metric_block has dispatch_action: the selection raises a block action
UserSelectMetric ==
    /\ CanAct
    /\ Len(handlers) < MaxInFlight
    /\ \E m \in MetricValues :
         LET st == SelectState("static_select", OptionOf(METRIC_OPTIONS, m))
             vs == SetState(modal.values, "metric_block", "metric_select", st)
         IN  /\ modal.values.v["metric_block"].v["metric_select"] # st
             /\ modal' = [modal EXCEPT !.values = vs]
             /\ handlers' = Append(handlers,
                    [kind |-> "on_metric_change", pc |-> "new",
                     body |-> [view |-> PayloadView(vs),
                               selected_option |-> OptionOf(METRIC_OPTIONS, m)]])
    /\ user' = user + 1
    /\ UNCHANGED <<out, prom, dateVars, cacheVars, rv>>

\* filter_block has dispatch_action too
UserSelectFilterType ==
    /\ CanAct
    /\ Len(handlers) < MaxInFlight
    /\ HasBlock(modal.view, "filter_block")
    /\ \E t \in {"na", "user", "group"} :
         LET st == SelectState("static_select", OptionOf(FILTER_TYPES, t))
             vs == SetState(modal.values, "filter_block", "filter_type", st)
         IN  /\ modal.values.v["filter_block"].v["filter_type"] # st
             /\ modal' = [modal EXCEPT !.values = vs]
             /\ handlers' = Append(handlers,
                    [kind |-> "on_filter_type_change", pc |-> "new",
                     body |-> [view |-> PayloadView(vs),
                               selected_option |-> OptionOf(FILTER_TYPES, t)]])
    /\ user' = user + 1
    /\ UNCHANGED <<out, prom, dateVars, cacheVars, rv>>

\* the user picks one of the suggested options of the filter-value field
UserPickFilterValue ==
    /\ CanAct
    /\ HasBlock(modal.view, "filter_value_block")
    /\ \E name \in FilterValues :
         LET aid == BlockOf(modal.view, "filter_value_block").element.action_id
             st  == SelectState("external_select", PickedOption(name))
         IN  /\ modal.values.v["filter_value_block"].v[aid] # st
             /\ modal' = [modal EXCEPT !.values = SetState(@, "filter_value_block", aid, st)]
    /\ user' = user + 1
    /\ UNCHANGED <<handlers, out, prom, dateVars, cacheVars, rv>>

\* every input block is required: Slack sends the submission only when
\* each of them holds a value
AllFilled(values) ==
    \A bid \in DOMAIN values.v : \A aid \in DOMAIN values.v[bid].v :
        LET st == values.v[bid].v[aid].v
        IN  IF "selected_date" \in DOMAIN st THEN st["selected_date"].tag # "None"
            ELSE st["selected_option"].tag # "None"

UserSubmit ==
    /\ CanAct
    /\ Len(handlers) < MaxInFlight
    /\ AllFilled(modal.values)
    /\ modal' = [modal EXCEPT !.status = "submitting"]
    /\ handlers' = Append(handlers, [kind |-> "on_submit", pc |-> "new",
                                     body |-> [view |-> PayloadView(modal.values)]])
    /\ user' = user + 1
    /\ UNCHANGED <<out, prom, dateVars, cacheVars, rv>>

UserCancel ==
    /\ CanAct
    /\ modal' = [modal EXCEPT !.status = "cancelled"]
    /\ user' = user + 1
    /\ UNCHANGED <<handlers, out, prom, dateVars, cacheVars, rv>>

\* ---------------------------------------------------------------- handlers
Remove(seq, i) == [j \in 1..(Len(seq) - 1) |-> IF j < i THEN seq[j] ELSE seq[j + 1]]

\* mutant: the decrement at the end of the try body instead of in finally
Exit_dec_in_try(handler, raised) ==
    [prom EXCEPT !.in_progress = IF raised THEN @ ELSE @ - 1,
                 !.errors[handler] = IF raised THEN @ + 1 ELSE @]

\* except Exception: HANDLER_ERRORS.labels(handler).inc(); raise
\* finally: HANDLERS_IN_PROGRESS.dec()
Exit(handler, raised) ==
    [prom EXCEPT !.in_progress = @ - 1,
                 !.errors[handler] = IF raised THEN @ + 1 ELSE @]

\* d[key]: KeyError on a missing key, TypeError on None
Index(d, key) ==
    IF d.tag = "raise" THEN d
    ELSE IF d.tag # "dict" THEN Raise("TypeError")
    ELSE IF key \in DOMAIN d.v THEN d.v[key] ELSE Raise("KeyError")

\* ---- cmd_metrics
CmdMetricsStart ==
    /\ \E i \in 1..Len(handlers) :
         /\ handlers[i].kind = "cmd_metrics" /\ handlers[i].pc = "new"
         /\ handlers' = [handlers EXCEPT ![i].pc = "acked"]
    /\ prom' = [prom EXCEPT !.in_progress = @ + 1, !.commands = @ + 1]
    /\ UNCHANGED <<modal, out, user, dateVars, cacheVars, rv>>

CmdMetricsOpen ==
    /\ \E i \in 1..Len(handlers) :
         /\ handlers[i].kind = "cmd_metrics" /\ handlers[i].pc = "acked"
         /\ LET view == build_modal_view(handlers[i].body.channel_id,
                                         Str("opt", "cpu_hours"), None)
            IN  IF view.tag = "raise"
                THEN modal' = modal /\ prom' = Exit("cmd_metrics", TRUE)
                ELSE /\ modal' = [status |-> "open", hash |-> 1, view |-> view,
                                  values |-> RetainedValues(None, view)]
                     /\ prom' = Exit("cmd_metrics", FALSE)
         /\ handlers' = Remove(handlers, i)
    /\ UNCHANGED <<out, user, dateVars, cacheVars, rv>>

\* views_open raises (the trigger_id has expired)
CmdMetricsOpenFails ==
    /\ \E i \in 1..Len(handlers) :
         /\ handlers[i].kind = "cmd_metrics" /\ handlers[i].pc = "acked"
         /\ handlers' = Remove(handlers, i)
    /\ prom' = Exit("cmd_metrics", TRUE)
    /\ UNCHANGED <<modal, out, user, dateVars, cacheVars, rv>>

\* ---- on_metric_change / on_filter_type_change
ActionId(kind) == IF kind = "on_metric_change" THEN "metric_select" ELSE "filter_type"

ActionStart ==
    /\ \E i \in 1..Len(handlers) :
         /\ handlers[i].kind \in {"on_metric_change", "on_filter_type_change"}
         /\ handlers[i].pc = "new"
         /\ handlers' = [handlers EXCEPT ![i].pc = "acked"]
         /\ prom' = [prom EXCEPT !.in_progress = @ + 1,
                                 !.actions[ActionId(handlers[i].kind)] = @ + 1]
    /\ UNCHANGED <<modal, out, user, dateVars, cacheVars, rv>>

\* the metric the re-render is built for
SelectedMetric(kind, body) ==
    IF kind = "on_metric_change"
    THEN Index(body.selected_option, "value")
    ELSE Index(Index(Index(Index(body.view.values, "metric_block"), "metric_select"),
                     "selected_option"), "value")

\* mutant: views_update called without the hash argument
UpdateHash_omitted(body) == [given |-> FALSE, value |-> body.view.hash]

\* the hash argument of client.views_update
UpdateHash(body) == [given |-> TRUE, value |-> body.view.hash]

\* Slack applies views_update to a view that is still shown, and, when a
\* hash is given, only if it is the hash of the view as it is now.
UpdateAccepted(hash) ==
    /\ modal.status \in {"open", "submitting"}
    /\ hash.given => hash.value = modal.hash

ActionUpdate ==
    /\ \E i \in 1..Len(handlers) :
         LET h    == handlers[i]
             new  == build_modal_view(h.body.view.private_metadata,
                                      SelectedMetric(h.kind, h.body), h.body.view.values)
             hash == UpdateHash(h.body)
         IN  /\ h.kind \in {"on_metric_change", "on_filter_type_change"}
             /\ h.pc = "acked"
             /\ handlers' = Remove(handlers, i)
             /\ IF new.tag = "raise"
                THEN /\ prom' = Exit(h.kind, TRUE)
                     /\ UNCHANGED <<modal, out>>
                ELSE /\ out' = [out EXCEPT !.update =
                                  [n |-> out.update.n + 1, handler |-> h.kind, hash |-> hash,
                                   raised_on |-> h.body.view.hash, current |-> modal.hash,
                                   accepted |-> UpdateAccepted(hash)]]
                     /\ IF UpdateAccepted(hash)
                        THEN /\ modal' = [modal EXCEPT
                                            !.view = new, !.hash = @ + 1,
                                            !.values = RetainedValues(modal.values, new)]
                             /\ prom' = Exit(h.kind, FALSE)
                        ELSE /\ modal' = modal
                             /\ prom' = Exit(h.kind, TRUE)
    /\ UNCHANGED <<user, dateVars, cacheVars, rv>>

\* ---- on_submit
\* lines 403-418: what on_submit reads from view["state"]["values"]
SubmittedValues(vals) ==
    LET fv_block == Get(vals, "filter_value_block", Dict(EmptyDict))
        state    == fv_block.v[CHOOSE a \in DOMAIN fv_block.v : TRUE]
    IN  [ start  |-> Index(Index(Index(vals, "start_date_block"), "start_date"), "selected_date"),
          end    |-> Index(Index(Index(vals, "end_date_block"), "end_date"), "selected_date"),
          metric |-> Index(Index(Index(Index(vals, "metric_block"), "metric_select"),
                                 "selected_option"), "value"),
          fmt    |-> Index(Index(Index(Index(vals, "format_block"), "format_select"),
                                 "selected_option"), "value"),
          filt_t |-> Get(Get(Get(Get(vals, "filter_block", Dict(EmptyDict)),
                                 "filter_type", Dict(EmptyDict)),
                             "selected_option", Dict(EmptyDict)), "value", Str("opt", "na")),
          filt_v |-> IF Truthy(fv_block)
                     THEN Get(Get(state, "selected_option", Dict(EmptyDict)), "value", EmptyStr)
                     ELSE EmptyStr ]

\* mutant: the return after the error ack is missing
SubmitProceeds_no_return(errs) == TRUE

\* if errs: await ack(response_action="errors", errors=errs); return
SubmitProceeds(errs) == errs = EmptyDict

\* mutant: the result goes to a fixed conversation
CommittedQuery_fixed_target(view, r) ==
    [ target    |-> "C1",
      metric    |-> r.metric.v,
      duration  |-> <<r.start.v, r.end.v>>,
      dimension |-> IF r.filt_t.v = "na" THEN "None"
                    ELSE IF r.filt_t.v = "user" THEN "User" ELSE "PI",
      filter    |-> r.filt_v,
      dataset_type |-> r.fmt.v ]

\* lines 426-435: the query handed to the data warehouse and its destination
CommittedQuery(view, r) ==
    [ target    |-> view.private_metadata,
      metric    |-> r.metric.v,
      duration  |-> <<r.start.v, r.end.v>>,
      dimension |-> IF r.filt_t.v = "na" THEN "None"
                    ELSE IF r.filt_t.v = "user" THEN "User" ELSE "PI",
      filter    |-> r.filt_v,
      dataset_type |-> r.fmt.v ]

SubmitStart ==
    /\ \E i \in 1..Len(handlers) :
         LET h   == handlers[i]
             r   == SubmittedValues(h.body.view.values)
             exc == FirstRaise(<<r.start, r.end, r.metric, r.fmt, r.filt_t, r.filt_v>>)
             errs == validate_dates(r.start.v, r.end.v)
         IN  /\ h.kind = "on_submit" /\ h.pc = "new"
             /\ IF exc.tag = "raise"
                THEN \* no ack is sent: Slack reports a failure and keeps the modal
                     /\ modal' = [modal EXCEPT !.status = "open"]
                     /\ out' = out
                     /\ handlers' = Remove(handlers, i)
                     /\ prom' = [prom EXCEPT !.views = @ + 1, !.errors["on_submit"] = @ + 1]
                ELSE /\ IF errs # EmptyDict
                        THEN /\ out' = [out EXCEPT !.ack = [kind |-> "errors", errors |-> errs]]
                             /\ modal' = [modal EXCEPT !.status = "open"]
                        ELSE /\ out' = [out EXCEPT !.ack = [kind |-> "ok"]]
                             /\ modal' = [modal EXCEPT !.status = "submitted"]
                     /\ IF SubmitProceeds(errs)
                        THEN /\ handlers' = [handlers EXCEPT ![i] =
                                   [kind |-> "on_submit", pc |-> "query", body |-> h.body,
                                    query |-> CommittedQuery(h.body.view, r)]]
                             /\ prom' = [prom EXCEPT !.views = @ + 1, !.in_progress = @ + 1]
                        ELSE /\ handlers' = Remove(handlers, i)
                             /\ prom' = [prom EXCEPT !.views = @ + 1]
    /\ UNCHANGED <<user, dateVars, cacheVars, rv>>

\* dw.get_data returns a frame
SubmitQuery ==
    /\ \E i \in 1..Len(handlers) :
         /\ handlers[i].kind = "on_submit" /\ handlers[i].pc = "query"
         /\ \E result \in {"data", "empty"} :
              /\ result = "empty" => handlers[i].query.dataset_type = "timeseries"
              /\ handlers' = [handlers EXCEPT ![i] =
                     [kind |-> "on_submit", pc |-> "post", body |-> handlers[i].body,
                      query |-> handlers[i].query, result |-> result]]
    /\ out' = [out EXCEPT !.handoffs = @ + 1]
    /\ UNCHANGED <<modal, prom, user, dateVars, cacheVars, rv>>

\* dw.get_data raises
SubmitQueryFails ==
    /\ \E i \in 1..Len(handlers) :
         /\ handlers[i].kind = "on_submit" /\ handlers[i].pc = "query"
         /\ handlers' = Remove(handlers, i)
    /\ out' = [out EXCEPT !.handoffs = @ + 1]
    /\ prom' = Exit("on_submit", TRUE)
    /\ UNCHANGED <<modal, user, dateVars, cacheVars, rv>>

\* chat_postMessage (and files_upload_v2 for a chart) to the target
SubmitPost ==
    /\ \E i \in 1..Len(handlers) :
         LET h == handlers[i]
         IN  /\ h.kind = "on_submit" /\ h.pc = "post"
             /\ out' = [out EXCEPT !.posts =
                   IF h.query.dataset_type = "timeseries" /\ h.result = "data"
                   THEN @ \o << [channel |-> h.query.target, what |-> "text"],
                                [channel |-> h.query.target, what |-> "file"] >>
                   ELSE Append(@, [channel |-> h.query.target, what |-> "blocks"])]
             /\ handlers' = Remove(handlers, i)
    /\ prom' = Exit("on_submit", FALSE)
    /\ UNCHANGED <<modal, user, dateVars, cacheVars, rv>>

\* ------------------------------------------------ specification: the dialog
Init ==
    /\ IdleCache
    /\ IdleView
    /\ IdleDialog
    /\ vd = [pc |-> "off"]
    /\ today = [year |-> BaseYear + YearSpan, month |-> 8, day |-> 31]
    /\ SIX_MONTHS_AGO = isoformat(MinusMonths(today, LOOKBACK_MONTHS))

Next ==
    \/ UserCommand
    \/ UserPickDate
    \/ UserSelectFormat
    \/ UserSelectMetric
    \/ UserSelectFilterType
    \/ UserPickFilterValue
    \/ UserSubmit
    \/ UserCancel
    \/ CmdMetricsStart
    \/ CmdMetricsOpen
    \/ CmdMetricsOpenFails
    \/ ActionStart
    \/ ActionUpdate
    \/ SubmitStart
    \/ SubmitQuery
    \/ SubmitQueryFails
    \/ SubmitPost

Spec == Init /\ [][Next]_vars

\* ------------------------------------------------------ claims: the dialog
\* C1: every views_update of on_metric_change and on_filter_type_change
\* carries the hash of the view its event was raised on; an update raised
\* on an older version than the one shown is rejected and leaves the shown
\* view alone, and the shown view is only replaced by an update whose hash
\* is the current one.
C1_StaleUpdateRejected ==
    [][ /\ out'.update.n # out.update.n =>
             LET u == out'.update
             IN  /\ u.handler \in {"on_metric_change", "on_filter_type_change"}
                 /\ u.hash = [given |-> TRUE, value |-> u.raised_on]
                 /\ u.raised_on # modal.hash =>
                      /\ ~u.accepted
                      /\ modal'.view = modal.view
                      /\ modal'.hash = modal.hash
        /\ (modal.status # "none" /\ (modal'.view # modal.view \/ modal'.hash # modal.hash)) =>
             /\ out'.update.n = out.update.n + 1
             /\ out'.update.raised_on = modal.hash
             /\ modal'.hash = modal.hash + 1
      ]_vars

\* two overlapping field changes raised on version 1: the first re-render
\* made version 2, the second arrived late and was rejected
C1_Witness ==
    /\ modal.status = "open"
    /\ out.update.n = 2
    /\ ~out.update.accepted
    /\ out.update.raised_on = 1
    /\ modal.hash = 2
    /\ handlers = <<>>

HasSubmit(seq, pc) ==
    \E i \in 1..Len(seq) : seq[i].kind = "on_submit" /\ seq[i].pc = pc

SubmittedDates(seq) ==
    LET h == seq[CHOOSE i \in 1..Len(seq) : seq[i].kind = "on_submit" /\ seq[i].pc = "new"]
        v == h.body.view.values.v
    IN  [ start |-> v["start_date_block"].v["start_date"].v["selected_date"].v,
          end   |-> v["end_date_block"].v["end_date"].v["selected_date"].v ]

\* C7: a submit is answered after the date validation only. With invalid
\* dates the answer is exactly the field errors, the modal stays open with
\* its view and inputs unchanged, nothing is queried or posted and the
\* handler is over; with valid dates the modal is closed and the handler
\* goes on to the query. Nothing is ever queried or posted for a modal
\* that was not closed by a clean ack.
C7_SubmitGating ==
    [][ /\ (modal.status = "submitting" /\ modal'.status # "submitting") =>
             LET d == SubmittedDates(handlers)
                 s == DateKey(d.start)
                 e == DateKey(d.end)
             IN  IF s <= e /\ s >= CutoffKey /\ e <= TodayKey
                 THEN /\ modal'.status = "submitted"
                      /\ out'.ack = [kind |-> "ok"]
                      /\ HasSubmit(handlers', "query")
                      /\ out'.posts = out.posts /\ out'.handoffs = out.handoffs
                 ELSE /\ modal'.status = "open"
                      /\ out'.ack.kind = "errors"
                      /\ out'.ack.errors # EmptyDict
                      /\ out'.ack.errors = validate_dates(d.start, d.end)
                      /\ modal'.view = modal.view /\ modal'.values = modal.values
                      /\ out'.posts = out.posts /\ out'.handoffs = out.handoffs
                      /\ ~HasSubmit(handlers', "query") /\ ~HasSubmit(handlers', "post")
        /\ (out'.handoffs # out.handoffs \/ out'.posts # out.posts) =>
             modal.status = "submitted" /\ out.ack = [kind |-> "ok"]
      ]_vars

\* a submit answered with errors on both date fields: the modal is open
\* again with the dates the user entered, nothing was queried or posted
C7_Witness ==
    /\ modal.status = "open"
    /\ out.ack.kind = "errors"
    /\ DOMAIN out.ack.errors = {"start_date_block", "end_date_block"}
    /\ modal.values.v["end_date_block"].v["end_date"] = DateState(isoformat(NextDay(today)))
    /\ handlers = <<>>
    /\ out.handoffs = 0 /\ out.posts = <<>>

\* C8: for a metric that is not filterable (only cpu and gpu are), the
\* view has neither the filter-type nor the filter-value field and has the
\* static informational block instead.
C8_NonFilterableHidesFilter ==
    (/\ rv.pc # "init" /\ rv.pc # "off"
     /\ rv.view1.tag = "view"
     /\ rv.selected_metric.v \notin {"cpu_hours", "gpu_hours"}) =>
        /\ ~HasBlock(rv.view1, "filter_block")
        /\ ~HasBlock(rv.view1, "filter_value_block")
        /\ HasBlock(rv.view1, "no_filter_block")

\* the value the echoed state holds for the filter-value element aid
HeldFilterValue(state_values, aid) ==
    IF /\ state_values.tag = "dict"
       /\ "filter_value_block" \in DOMAIN state_values.v
       /\ aid \in DOMAIN state_values.v["filter_value_block"].v
       /\ state_values.v["filter_value_block"].v[aid].v["selected_option"].tag = "dict"
    THEN state_values.v["filter_value_block"].v[aid].v["selected_option"].v["value"]
    ELSE None

\* C9: when build_modal_view emits the filter-value field and the echoed
\* state holds a value entered in that field, the emitted field carries
\* that value as its initial value.
C9_FilterValueCarried ==
    (/\ rv.pc # "init" /\ rv.pc # "off"
     /\ rv.view1.tag = "view"
     /\ HasBlock(rv.view1, "filter_value_block")) =>
        LET e    == BlockOf(rv.view1, "filter_value_block").element
            held == HeldFilterValue(rv.state_values, e.action_id)
        IN  held.tag = "str" =>
              \/ "initial_value" \in DOMAIN e /\ e.initial_value = held
              \/ "initial_option" \in DOMAIN e /\ e.initial_option.v["value"] = held

\* the values Slack echoes always have the shape FormState describes
ValuesWellFormed ==
    modal.status \in {"open", "submitting"} =>
        \E s \in DialogDates, e \in DialogDates, m \in MetricValues,
           f \in {"aggregate", "timeseries"}, fs \in FilterShapes :
            modal.values = FormState(s, e, m, f, fs[1], fs[2], fs[3])

\* ------------------------------------------- claims: reconciliation again
\* the fields of a view in order, each with what it initially shows
Shown(view) ==
    [ i \in 1..Len(view.blocks) |->
        LET b == view.blocks[i]
        IN  IF "element" \notin DOMAIN b THEN [type |-> b.type]
            ELSE [ block_id  |-> b.block_id,
                   action_id |-> b.element.action_id,
                   initial   |-> IF "initial_date" \in DOMAIN b.element
                                 THEN b.element.initial_date
                                 ELSE IF "initial_option" \in DOMAIN b.element
                                 THEN b.element.initial_option
                                 ELSE IF "initial_value" \in DOMAIN b.element
                                 THEN b.element.initial_value
                                 ELSE None ] ]

\* C11: reconciling the echo of an emitted view, with the same surface id
\* and metric, gives an equivalent view: the same fields in the same order
\* with the same initial values.
C11_RoundTrip ==
    rv.pc = "echoed" =>
        /\ rv.view2.tag = "view"
        /\ Shown(rv.view2) = Shown(rv.view1)

\* on the day the view was built the round trip does hold
C11_SameDayRoundTrip ==
    (rv.pc = "echoed" /\ rv.days = 0) =>
        /\ rv.view2.tag = "view"
        /\ rv.view2 = rv.view1

\* ------------------------------------- claims: the cache and its readers
Elems(list) == { list[i] : i \in 1..Len(list) }

NotIn(old, x) == x \notin Elems(old)

\* old followed by the entries of batch that old does not hold
ExpectedMerge(old, batch) == old \o SelectSeq(batch, LAMBDA x : NotIn(old, x))

AnswerStep == suggest.pc = "pending" /\ suggest'.pc = "answered"

\* C12: the cache changes only by installing, for each dimension, the
\* complete merge of the list before with the fetched batch; an
\* autocomplete answer is computed, in one step, from the whole list its
\* dimension holds at that moment, and no refresh cycle is between its
\* fetch and its installation at that moment.
C12_NoTornRead ==
    [][ /\ CACHE_TYPEAHEAD' # CACHE_TYPEAHEAD =>
             /\ CACHE_TYPEAHEAD'["USERS"] =
                  ExpectedMerge(CACHE_TYPEAHEAD["USERS"], refresher'.u1)
             /\ CACHE_TYPEAHEAD'["PI"] =
                  ExpectedMerge(CACHE_TYPEAHEAD["PI"], refresher'.g1)
        /\ AnswerStep =>
             LET key == IF suggest.action_id = "filter_value_user" THEN "USERS" ELSE "PI"
             IN  /\ suggest'.seen = CACHE_TYPEAHEAD[key]
                 /\ CACHE_TYPEAHEAD' = CACHE_TYPEAHEAD
                 /\ refresher' = refresher
                 /\ refresher.pc \in {"off", "sleeping", "dead"}
                 /\ \A i \in 1..Len(suggest'.options) :
                      suggest'.options[i].text[1] = "plain" =>
                          suggest'.options[i].value \in Elems(suggest'.seen)
      ]_vars

\* an answer read from a users list that two finished cycles have merged
C12_Witness ==
    /\ suggest.pc = "answered"
    /\ suggest.action_id = "filter_value_user"
    /\ refresher.pc = "sleeping"
    /\ refresher.cycles = 2
    /\ suggest.seen = CACHE_TYPEAHEAD["USERS"]
    /\ Len(suggest.seen) > Len(refresher.u1)
    /\ Len(refresher.u1) > 1
    /\ \E i \in 1..Len(suggest.options) : suggest.options[i].text[1] = "plain"

\* C13: an autocomplete query that is pending while a refresh cycle is in
\* flight (a listing requested, not yet returned) can be answered then.
C13_AnswerDuringRefresh ==
    (suggest.pc = "pending" /\ refresher.pc \in {"fetch_users", "fetch_groups"})
        => ENABLED SuggestFilterValues

\* C20: a cycle writes nothing until both listings are fetched; it then
\* installs both lists in one step, each merged from this cycle's batch. A
\* cycle in which a fetch fails leaves both lists as they were, and no
\* autocomplete answer is computed between a cycle's fetches and its
\* installation.
C20_CycleAllOrNothing ==
    [][ /\ refresher'.pc # "sleeping" => CACHE_TYPEAHEAD' = CACHE_TYPEAHEAD
        /\ (refresher'.failed /\ ~refresher.failed) => CACHE_TYPEAHEAD' = CACHE_TYPEAHEAD
        /\ (refresher.pc # "sleeping" /\ refresher'.pc = "sleeping") =>
             /\ refresher.pc = "fetch_groups"
             /\ refresher'.u1 = refresher.u1
             /\ CACHE_TYPEAHEAD'["USERS"] =
                  ExpectedMerge(CACHE_TYPEAHEAD["USERS"], refresher.u1)
             /\ CACHE_TYPEAHEAD'["PI"] =
                  ExpectedMerge(CACHE_TYPEAHEAD["PI"], refresher'.g1)
        /\ AnswerStep => refresher.pc \notin {"fetch_users", "fetch_groups"}
      ]_vars

\* the second cycle fetched users the cache does not hold, then its
\* groups fetch failed; an autocomplete answer was computed afterwards
C20_Witness ==
    /\ refresher.pc = "dead"
    /\ refresher.cycles = 2
    /\ \E i \in 1..Len(refresher.u1) : NotIn(CACHE_TYPEAHEAD["USERS"], refresher.u1[i])
    /\ CACHE_TYPEAHEAD["PI"] # <<>>
    /\ suggest.pc = "answered"
    /\ suggest.seen = CACHE_TYPEAHEAD["USERS"]

\* ------------------------------------------------ claims: the date fields
\* the date the raw field state holds for a datepicker, None if it holds none
HeldDate(state_values, bid, aid) ==
    IF /\ state_values.tag = "dict"
       /\ bid \in DOMAIN state_values.v
       /\ state_values.v[bid].tag = "dict"
       /\ aid \in DOMAIN state_values.v[bid].v
       /\ state_values.v[bid].v[aid].tag = "dict"
       /\ "selected_date" \in DOMAIN state_values.v[bid].v[aid].v
       /\ state_values.v[bid].v[aid].v["selected_date"].tag = "str"
    THEN state_values.v[bid].v[aid].v["selected_date"]
    ELSE None

SeededFrom(held) == IF held.tag = "str" THEN held ELSE Str("iso", isoformat(today))

\* C14: the start-date and end-date fields of the view are seeded from the
\* date the raw field state holds for the field when it holds one, and
\* from today only when it holds none.
C14_DatesCarried ==
    (rv.pc = "called1" /\ rv.days = 0 /\ rv.view1.tag = "view") =>
        /\ BlockOf(rv.view1, "start_date_block").element.initial_date =
             SeededFrom(HeldDate(rv.state_values, "start_date_block", "start_date"))
        /\ BlockOf(rv.view1, "end_date_block").element.initial_date =
             SeededFrom(HeldDate(rv.state_values, "end_date_block", "end_date"))

\* ------------------------------------------- claims: damaged field state
\* the option value the raw state holds for a select, None unless a string
HeldOption(state_values, bid, aid) ==
    IF /\ state_values.tag = "dict"
       /\ bid \in DOMAIN state_values.v
       /\ state_values.v[bid].tag = "dict"
       /\ aid \in DOMAIN state_values.v[bid].v
       /\ state_values.v[bid].v[aid].tag = "dict"
       /\ "selected_option" \in DOMAIN state_values.v[bid].v[aid].v
       /\ state_values.v[bid].v[aid].v["selected_option"].tag = "dict"
       /\ state_values.v[bid].v[aid].v["selected_option"].v["value"].tag = "str"
    THEN state_values.v[bid].v[aid].v["selected_option"].v["value"]
    ELSE None

OrDefault(held, default) == IF held.tag = "str" THEN held ELSE Str("opt", default)

\* C15: for a valid metric and a raw state in which a field's entry is
\* missing, null or not a string, build_modal_view returns a view (it does
\* not raise), with the default for that field: format aggregate, filter
\* type none and hence no filter-value field.
C15_DamagedIsAbsent ==
    (rv.pc = "called1" /\ rv.days = 0) =>
        /\ rv.view1.tag = "view"
        /\ BlockOf(rv.view1, "format_block").element.initial_option.v["value"] =
             OrDefault(HeldOption(rv.state_values, "format_block", "format_select"),
                       "aggregate")
        /\ BlockOf(rv.view1, "filter_block").element.initial_option.v["value"] =
             OrDefault(HeldOption(rv.state_values, "filter_block", "filter_type"), "na")
        /\ HasBlock(rv.view1, "filter_value_block") <=>
             HeldOption(rv.state_values, "filter_block", "filter_type").tag = "str"

\* ------------------------------------------------- claims: the view shape
BlockIds(view) ==
    [ i \in 1..Len(view.blocks) |->
        IF "block_id" \in DOMAIN view.blocks[i] THEN view.blocks[i].block_id
        ELSE view.blocks[i].type ]

ActionIds(view) ==
    [ i \in 1..Len(view.blocks) |->
        IF "element" \in DOMAIN view.blocks[i] THEN view.blocks[i].element.action_id
        ELSE "none" ]

WellShaped(view) ==
    LET ids  == BlockIds(view)
        aids == ActionIds(view)
        n    == Len(ids)
    IN  /\ n \in {6, 7}
        /\ SubSeq(ids, 1, 5) = << "start_date_block", "end_date_block", "metric_block",
                                  "format_block", "divider" >>
        /\ SubSeq(aids, 1, 5) = << "start_date", "end_date", "metric_select",
                                   "format_select", "none" >>
        /\ \/ SubSeq(ids, 6, n) = << "filter_block" >> /\ aids[6] = "filter_type"
           \/ /\ SubSeq(ids, 6, n) = << "filter_block", "filter_value_block" >>
              /\ aids[6] = "filter_type"
              /\ aids[7] \in {"filter_value_user", "filter_value_pi"}
           \/ SubSeq(ids, 6, n) = << "no_filter_block" >> /\ aids[6] = "none"
        /\ \A i, j \in 1..n : ids[i] = ids[j] => i = j
        /\ HasBlock(view, "filter_value_block") <=>
             /\ HasBlock(view, "filter_block")
             /\ BlockOf(view, "filter_block").element.initial_option.v["value"].v
                  \in {"user", "group"}

\* C16: every view build_modal_view returns for a valid metric is the
\* start-date, end-date, metric and format fields and the divider, then
\* either the filter-type selector (and after it, exactly when its seeded
\* selection is user or group, the filter-value field) or the static
\* block; the block ids are these fixed ones and are unique in the view.
C16_ViewShape ==
    /\ (rv.pc \notin {"off", "init"} /\ rv.view1.tag = "view") => WellShaped(rv.view1)
    /\ (rv.pc \in {"called2", "echoed"} /\ rv.view2.tag = "view") => WellShaped(rv.view2)

\* a view with the filter-value field, built again from its own echo
C16_Witness ==
    /\ rv.pc = "echoed"
    /\ rv.view2.tag = "view"
    /\ Len(rv.view2.blocks) = 7
    /\ BlockOf(rv.view2, "filter_block").element.initial_option.v["value"].v = "group"
    /\ BlockOf(rv.view2, "filter_value_block").element.action_id = "filter_value_pi"

\* ------------------------------------------- claims: the surface identity
\* C17: the view opened for /metrics typed in conversation S carries S as
\* its private_metadata, every view that replaces it carries the same S,
\* and everything posted for the dialog is posted to S.
C17_SurfaceIdentity ==
    [][ /\ (modal.status = "none" /\ modal'.status # "none") =>
             /\ Len(handlers) = 1
             /\ handlers[1].kind = "cmd_metrics"
             /\ modal'.view.private_metadata = handlers[1].body.channel_id
        /\ (modal.status # "none") =>
             /\ modal'.status # "none"
             /\ modal'.view.private_metadata = modal.view.private_metadata
        /\ out'.posts # out.posts =>
             /\ modal.status = "submitted"
             /\ Len(out'.posts) > Len(out.posts)
             /\ \A i \in 1..Len(out'.posts) :
                  out'.posts[i].channel = modal.view.private_metadata
      ]_vars

\* /metrics typed in the direct-message conversation, the view replaced
\* after a field change, the dialog committed and its chart posted there
C17_Witness ==
    /\ modal.status = "submitted"
    /\ modal.view.private_metadata = "D1"
    /\ modal.hash > 1
    /\ Len(out.posts) = 2
    /\ out.posts[1].channel = "D1" /\ out.posts[2].channel = "D1"
    /\ handlers = <<>>

\* ---------------------------------------- claims: failures and instruments
QueryFailedStep ==
    /\ HasSubmit(handlers, "query")
    /\ ~HasSubmit(handlers', "query")
    /\ ~HasSubmit(handlers', "post")

\* C18: when the data-source query of a committed dialog fails, a message
\* is posted to the destination conversation, the failure is counted once
\* as an error of on_submit, and the query is not made again.
C18_QueryFailureSurfaced ==
    [][ QueryFailedStep =>
          /\ Len(out'.posts) = Len(out.posts) + 1
          /\ out'.posts[Len(out'.posts)].channel = modal.view.private_metadata
          /\ prom'.errors["on_submit"] = prom.errors["on_submit"] + 1
          /\ out'.handoffs = out.handoffs + 1
          /\ ~HasSubmit(handlers', "new")
      ]_vars

\* the handlers of a kind that have not started yet
Waiting(seq, kinds) == { i \in 1..Len(seq) : seq[i].kind \in kinds /\ seq[i].pc = "new" }

StartStep(kinds) == Cardinality(Waiting(handlers', kinds)) < Cardinality(Waiting(handlers, kinds))

\* C19: each handled event increments a count tagged with its kind: a
\* command, a field change of the metric or of the filter type, a
\* submission, and an autocomplete query.
C19_EveryEventCounted ==
    [][ /\ StartStep({"cmd_metrics"}) => prom'.commands = prom.commands + 1
        /\ StartStep({"on_metric_change"}) =>
             prom'.actions["metric_select"] = prom.actions["metric_select"] + 1
        /\ StartStep({"on_filter_type_change"}) =>
             prom'.actions["filter_type"] = prom.actions["filter_type"] + 1
        /\ StartStep({"on_submit"}) => prom'.views = prom.views + 1
        /\ AnswerStep => prom' # prom
      ]_vars

\* ------------------------------------------ claims: the in-progress gauge
\* the handlers that have started and not yet finished
Running == { i \in 1..Len(handlers) : handlers[i].pc # "new" }

====
